---- MODULE Spec2Model ----
(***************************************************************************)
(* Model of bloggie_unwarper_GUI.py: the donut -> panorama transform       *)
(* (build_map, unwarp with cv2.remap) and the Tk window around it          *)
(* (BloggieGUI: load, save, drag, key, spinbox, coalesced refresh).        *)
(*                                                                         *)
(* Numbers.  The program computes in float32/float64; the model computes   *)
(* in fixed point.  Source coordinates, centres and radii are integers in  *)
(* units of 1/100 pixel, curve coefficients and cosines are integers in    *)
(* units of 1/10000, angles are whole degrees (the panorama widths used    *)
(* divide 360, so x/unw_w of a turn is a whole number of degrees).  Every  *)
(* rounding the code performs (Python round, cvRound) is round-half-even.  *)
(***************************************************************************)
EXTENDS Integers, Sequences, FiniteSets, TLC

VARIABLES
    \* ---- BloggieGUI fields (src lines 46-61) ----
    img_path, img_bgr, w, h,
    cx, cy, rmin, rmax, pano_w, shift_deg, interp,
    pending, dragging,
    \* ---- Tk side of the window: scheduled after() callbacks, the two
    \*      image labels, the files written by the save handlers ----
    timers, left, right, out_file, params_file,
    \* ---- the last call of unwarp (and so of build_map), the
    \*      number of user events so far ----
    last_map, nev,
    \* ---- one call of build_map / unwarp / cv2.remap in progress ----
    pc, call, yfrac, radius, angle, map_x, map_y, dst,
    \* ---- the pixel-by-pixel run of the single-white-pixel scenario ----
    scan, sample, whites

gui_vars == <<img_path, img_bgr, w, h, cx, cy, rmin, rmax, pano_w, shift_deg,
              interp, pending, dragging, timers, left, right, out_file,
              params_file, last_map, nev>>
core_vars == <<pc, call, yfrac, radius, angle, map_x, map_y, dst>>
scen_vars == <<scan, sample, whites>>
vars == <<gui_vars, core_vars, scen_vars>>

----------------------------------------------------------------------------
(* Fixed-point arithmetic                                                  *)

\* positions: 1/100 pixel
Q == 10 * 10
\* curve coefficients and cosines: 1/10000
K == 100 * 100

\* Python's None
None == <<>>
Some(v) == <<v>>

Max(a, b) == IF a >= b THEN a ELSE b
Min(a, b) == IF a <= b THEN a ELSE b

\* n/d rounded to the nearest integer, ties to the even one (d > 0):
\* Python 3 round() and OpenCV cvRound()
RoundHalfEven(n, d) ==
    LET q == n \div d
        r == n % d
    IN  IF 2 * r > d \/ (2 * r = d /\ q % 2 = 1) THEN q + 1 ELSE q

\* cos of 0..90 degrees, in 1/10000
CosTab ==
    << 10000, 9998, 9994, 9986, 9976, 9962, 9945, 9925, 9903, 9877, 9848,
       9816, 9781, 9744, 9703, 9659, 9613, 9563, 9511, 9455, 9397, 9336,
       9272, 9205, 9135, 9063, 8988, 8910, 8829, 8746, 8660, 8572, 8480,
       8387, 8290, 8192, 8090, 7986, 7880, 7771, 7660, 7547, 7431, 7314,
       7193, 7071, 6947, 6820, 6691, 6561, 6428, 6293, 6157, 6018, 5878,
       5736, 5592, 5446, 5299, 5150, 5000, 4848, 4695, 4540, 4384, 4226,
       4067, 3907, 3746, 3584, 3420, 3256, 3090, 2924, 2756, 2588, 2419,
       2250, 2079, 1908, 1736, 1564, 1392, 1219, 1045, 872, 698, 523, 349,
       175, 0 >>

\* np.cos / np.sin of an angle given in whole degrees, in 1/10000
Cos(deg) ==
    LET d == deg % 360
    IN  IF d <= 90 THEN CosTab[d + 1]
        ELSE IF d <= 180 THEN 0 - CosTab[180 - d + 1]
        ELSE IF d <= 270 THEN 0 - CosTab[d - 180 + 1]
        ELSE CosTab[360 - d + 1]
Sin(deg) == Cos(deg - 90)

----------------------------------------------------------------------------
(* Module constants (src lines 12-13)                                      *)

Y_WARP_A == 1850
Y_WARP_B == 8184
Y_WARP_C == -28
\* ASPECT = 360.0 / 55.0, kept as the fraction ASPECT_NUM / ASPECT_DEN
ASPECT_NUM == 360
ASPECT_DEN == 55

----------------------------------------------------------------------------
(* build_map (src lines 15-24), one destination pixel at a time            *)

\* np.arange(n): 0 .. n-1, empty for n <= 0
Arange(n) == 0 .. (n - 1)

\* lines 18-19: y = ys / float(unw_h); yfrac = yA*y**2 + yB*y + yC.
\* No clamping to [0,1].
YFracInclusive(y, unw_h, yA, yB, yC) ==
    RoundHalfEven(yA * y * y + yB * y * (unw_h - 1) + yC * (unw_h - 1) * (unw_h - 1),
                  (unw_h - 1) * (unw_h - 1))
YFracClamped(y, unw_h, yA, yB, yC) ==
    Max(0, Min(K, RoundHalfEven(yA * y * y + yB * y * unw_h + yC * unw_h * unw_h,
                                unw_h * unw_h)))
YFrac(y, unw_h, yA, yB, yC) ==
    RoundHalfEven(yA * y * y + yB * y * unw_h + yC * unw_h * unw_h,
                  unw_h * unw_h)

\* line 20: radius = yfrac * (rmax - rmin) + rmin
Radius(yf, r_min, r_max) == RoundHalfEven(yf * (r_max - r_min), K) + r_min

\* line 21: angle = (0.0 - (xs / float(unw_w)) * 2*pi) + shift, in degrees
AngleMirrored(x, unw_w, shift) == RoundHalfEven(360 * x, unw_w) + shift
Angle(x, unw_w, shift) == (0 - RoundHalfEven(360 * x, unw_w)) + shift

\* lines 22-23: map_x = cx + radius*cos(angle); map_y = cy + radius*sin(angle)
MapX(c_x, rad, ang) == c_x + RoundHalfEven(rad * Cos(ang), K)
MapY(c_y, rad, ang) == c_y + RoundHalfEven(rad * Sin(ang), K)

----------------------------------------------------------------------------
(* cv2.remap (src line 30): INTER_NEAREST / INTER_CUBIC, BORDER_CONSTANT,  *)
(* borderValue = 0.  A raster is [w, h, fg]: fg is the set of <<x, y>>     *)
(* holding White, every other pixel holds Black.                           *)

Black == 0
White == 255
BorderValue == 0

InSrc(src, px, py) == px >= 0 /\ px < src.w /\ py >= 0 /\ py < src.h

\* a source sample under BORDER_CONSTANT: outside the raster -> borderValue
PixReplicate(src, px, py) ==
    IF <<Max(0, Min(src.w - 1, px)), Max(0, Min(src.h - 1, py))>> \in src.fg
    THEN White ELSE Black
Pix(src, px, py) ==
    IF InSrc(src, px, py)
    THEN (IF <<px, py>> \in src.fg THEN White ELSE Black)
    ELSE BorderValue

\* INTER_NEAREST: cvRound of both coordinates
cvRound(v) == RoundHalfEven(v, Q)
RemapNearest(src, mx, my) == Pix(src, cvRound(mx), cvRound(my))

\* INTER_CUBIC: coordinates in 1/32 pixel (INTER_BITS = 5); integer part
\* and fraction index
Fix5(v) == RoundHalfEven(v * 32, Q)

\* interpolateCubic, A = -0.75, for the fraction f/32; weights in 1/1024,
\* the fourth one completing the sum to 1
CubicCoeffs(f) ==
    LET u  == f + 32
        g  == 32 - f
        c0 == RoundHalfEven((0 - 3) * (u * u * u - 160 * u * u + 8192 * u - 131072), 128)
        c1 == RoundHalfEven(5 * f * f * f - 288 * f * f + 131072, 128)
        c2 == RoundHalfEven(5 * g * g * g - 288 * g * g + 131072, 128)
    IN  << c0, c1, c2, 1024 - c0 - c1 - c2 >>

\* saturate_cast<uchar>
Saturate(v) == Max(0, Min(255, v))

\* the 4x4 neighbourhood starts at (floor - 1); a neighbourhood wholly
\* outside the source gives borderValue, otherwise outside samples count
\* as borderValue in the weighted sum
RemapCubic(src, mx, my) ==
    LET sx == Fix5(mx)
        sy == Fix5(my)
        ix == (sx \div 32) - 1
        iy == (sy \div 32) - 1
        wx == CubicCoeffs(sx % 32)
        wy == CubicCoeffs(sy % 32)
        Row(i) == wx[1] * Pix(src, ix, iy + i) + wx[2] * Pix(src, ix + 1, iy + i)
                  + wx[3] * Pix(src, ix + 2, iy + i) + wx[4] * Pix(src, ix + 3, iy + i)
        sum == wy[1] * Row(0) + wy[2] * Row(1) + wy[3] * Row(2) + wy[4] * Row(3)
    IN  IF ix >= src.w \/ ix + 4 <= 0 \/ iy >= src.h \/ iy + 4 <= 0
        THEN BorderValue
        ELSE Saturate((sum + 524288) \div 1048576)

\* line 29: mode = INTER_NEAREST if interp == "nearest" else INTER_CUBIC
RemapPixel(src, mx, my, mode) ==
    IF mode = "nearest" THEN RemapNearest(src, mx, my) ELSE RemapCubic(src, mx, my)

----------------------------------------------------------------------------
(* State of the window before any call is modelled, and of the transform   *)
(* when the window is what runs                                            *)

GuiIdle ==
    /\ img_path = None /\ img_bgr = None /\ w = 0 /\ h = 0
    /\ cx = 0 /\ cy = 0 /\ rmin = 0 /\ rmax = 0
    /\ pano_w = 1200 /\ shift_deg = 0 /\ interp = "nearest"
    /\ pending = None /\ dragging = FALSE
    /\ timers = {} /\ left = None /\ right = None
    /\ out_file = None /\ params_file = None
    /\ last_map = None /\ nev = 0

CoreIdle ==
    /\ yfrac = <<>> /\ radius = <<>> /\ angle = <<>>
    /\ map_x = <<>> /\ map_y = <<>> /\ dst = <<>>

ScenIdle == scan = <<0, 0>> /\ sample = Black /\ whites = {}

----------------------------------------------------------------------------
(* Inputs of the transform                                                 *)

\* source rasters are SrcW x SrcH
SrcW == 2
SrcH == 2
\* map coordinates tried by the resampler run from -MaxOut to SrcW + MaxOut
\* pixels, in quarter pixels
MaxOut == 2

Modes == {"nearest", "cubic"}

\* all black, all white, and one white pixel at each place
Rasters ==
    {[w |-> SrcW, h |-> SrcH, fg |-> {}],
     [w |-> SrcW, h |-> SrcH, fg |-> Arange(SrcW) \X Arange(SrcH)]}
    \cup {[w |-> SrcW, h |-> SrcH, fg |-> {p}] : p \in Arange(SrcW) \X Arange(SrcH)}

CoordsX == {25 * k : k \in (0 - 4 * MaxOut) .. (4 * (SrcW + MaxOut))}
CoordsY == {25 * k : k \in (0 - 4 * MaxOut) .. (4 * (SrcH + MaxOut))}

----------------------------------------------------------------------------
(* cv2.remap on a whole map (src line 30)                                  *)

\* the destination raster: one sample per entry of the map
Remap(src, mx, my, mode) ==
    [p \in DOMAIN mx |-> RemapPixel(src, mx[p], my[p], mode)]

\* Resampler alone, on a one-pixel map holding any coordinate pair
InitRemap ==
    /\ GuiIdle /\ ScenIdle
    /\ yfrac = <<>> /\ radius = <<>> /\ angle = <<>> /\ dst = <<>>
    /\ pc = "remap"
    /\ \E src \in Rasters, mode \in Modes, mx \in CoordsX, my \in CoordsY :
          /\ call = [op |-> "remap", src |-> src, interp |-> mode]
          /\ map_x = [p \in {<<0, 0>>} |-> mx]
          /\ map_y = [p \in {<<0, 0>>} |-> my]

RemapCall ==
    /\ pc = "remap"
    /\ call.op = "remap"
    /\ dst' = Remap(call.src, map_x, map_y, call.interp)
    /\ pc' = "done"
    /\ UNCHANGED <<call, yfrac, radius, angle, map_x, map_y, gui_vars, scen_vars>>

NextRemap == RemapCall
SpecRemap == InitRemap /\ [][NextRemap]_vars

----------------------------------------------------------------------------
(* C1: out-of-bounds sampling                                              *)

\* the mapped coordinate itself lies outside [0,w) x [0,h)
CoordOutside(src, mx, my) == mx < 0 \/ mx >= src.w * Q \/ my < 0 \/ my >= src.h * Q

\* the pixel INTER_NEAREST reads lies outside the source
NearestOutside(src, mx, my) == ~InSrc(src, cvRound(mx), cvRound(my))

\* no pixel of the 4x4 neighbourhood INTER_CUBIC reads lies inside the source
CubicOutside(src, mx, my) ==
    LET ix == (Fix5(mx) \div 32) - 1
        iy == (Fix5(my) \div 32) - 1
    IN  \A i \in 0 .. 3, j \in 0 .. 3 : ~InSrc(src, ix + j, iy + i)

\* C1 as stated: every destination pixel whose mapped coordinate lies outside
\* [0,sourceWidth) x [0,sourceHeight) is written with the fill value 0, in
\* both modes, with no contribution from source pixels.
C1_OutsideCoordIsFill ==
    (pc = "done" /\ call.op = "remap") =>
        \A p \in DOMAIN dst :
            CoordOutside(call.src, map_x[p], map_y[p]) => dst[p] = BorderValue

\* C1 amended: the resampler never raises on a non-empty map, and a
\* destination pixel is written with the fill value 0 when, in nearest mode,
\* the coordinate rounded to the nearest pixel (ties to even) lies outside the
\* source, and in cubic mode, the whole 4x4 neighbourhood of the coordinate
\* lies outside the source.
C1_OutsideSamplesAreFill ==
    /\ call.op = "remap" => pc \in {"remap", "done"}
    /\ (pc = "done" /\ call.op = "remap") =>
          \A p \in DOMAIN dst :
             /\ (call.interp = "nearest" /\ NearestOutside(call.src, map_x[p], map_y[p]))
                   => dst[p] = BorderValue
             /\ (call.interp = "cubic" /\ CubicOutside(call.src, map_x[p], map_y[p]))
                   => dst[p] = BorderValue

\* an all-white source sampled in nearest mode just outside its left edge
C1_Witness ==
    /\ pc = "done" /\ call.op = "remap" /\ call.interp = "nearest"
    /\ call.src.fg = Arange(SrcW) \X Arange(SrcH)
    /\ cvRound(map_x[<<0, 0>>]) = 0 - 1
    /\ cvRound(map_y[<<0, 0>>]) = 0
    /\ dst[<<0, 0>>] = BorderValue

----------------------------------------------------------------------------
(* build_map and unwarp, statement by statement (src lines 15-30)          *)

\* line 27: unw_h = int(round(unw_w / ASPECT))
UnwH(unw_w) == RoundHalfEven(unw_w * ASPECT_DEN, ASPECT_NUM)

\* panorama widths handed to unwarp, and the shapes and curves handed to
\* build_map directly
UnwarpWidths == {0 - 4, 0, 3, 4, 8, 12}
MapShapes == {<<4, 1>>, <<4, 2>>, <<8, 3>>}
Curves == {<<Y_WARP_A, Y_WARP_B, Y_WARP_C>>, <<0, K, 0>>, <<0, 3 * K, 0 - 5000>>}
Centers == {100, 120}
RadiiPairs == {<<50, 150>>, <<5000, 15000>>, <<100, 100>>, <<150, 50>>}
Shifts == {0, 90}

UnwarpCalls ==
    {[op |-> "unwarp", src |-> s, unw_w |-> ww, unw_h |-> 0, cx |-> c, cy |-> 100,
      rmin |-> r[1], rmax |-> r[2], shift |-> sh,
      yA |-> Y_WARP_A, yB |-> Y_WARP_B, yC |-> Y_WARP_C, interp |-> m] :
        s \in Rasters, ww \in UnwarpWidths, c \in Centers, r \in RadiiPairs,
        sh \in Shifts, m \in Modes}

BuildMapCalls ==
    {[op |-> "build_map", src |-> [w |-> 0, h |-> 0, fg |-> {}],
      unw_w |-> d[1], unw_h |-> d[2], cx |-> c, cy |-> 100,
      rmin |-> r[1], rmax |-> r[2], shift |-> sh,
      yA |-> k[1], yB |-> k[2], yC |-> k[3], interp |-> "nearest"] :
        d \in MapShapes, c \in Centers, r \in RadiiPairs, sh \in Shifts, k \in Curves}

InitCore ==
    /\ GuiIdle /\ ScenIdle /\ CoreIdle
    /\ call \in UnwarpCalls \cup BuildMapCalls
    /\ pc = call.op

\* lines 26-28: derive the height, then call build_map with the default curve
UnwarpEnter ==
    /\ pc = "unwarp"
    /\ call' = [call EXCEPT !.unw_h = UnwH(call.unw_w)]
    /\ pc' = "build_map"
    /\ UNCHANGED <<yfrac, radius, angle, map_x, map_y, dst, gui_vars, scen_vars>>

\* lines 16-19
BuildMapYFrac ==
    /\ pc = "build_map"
    /\ yfrac' = [y \in Arange(call.unw_h) |->
                    YFrac(y, call.unw_h, call.yA, call.yB, call.yC)]
    /\ pc' = "radius"
    /\ UNCHANGED <<call, radius, angle, map_x, map_y, dst, gui_vars, scen_vars>>

\* line 20
BuildMapRadius ==
    /\ pc = "radius"
    /\ radius' = [y \in DOMAIN yfrac |-> Radius(yfrac[y], call.rmin, call.rmax)]
    /\ pc' = "angle"
    /\ UNCHANGED <<call, yfrac, angle, map_x, map_y, dst, gui_vars, scen_vars>>

\* line 21
BuildMapAngle ==
    /\ pc = "angle"
    /\ angle' = [x \in Arange(call.unw_w) |-> Angle(x, call.unw_w, call.shift)]
    /\ pc' = "map"
    /\ UNCHANGED <<call, yfrac, radius, map_x, map_y, dst, gui_vars, scen_vars>>

\* lines 22-24; back in unwarp the map goes to cv2.remap
BuildMapReturn ==
    /\ pc = "map"
    /\ map_x' = [p \in (DOMAIN angle) \X (DOMAIN radius) |->
                    MapX(call.cx, radius[p[2]], angle[p[1]])]
    /\ map_y' = [p \in (DOMAIN angle) \X (DOMAIN radius) |->
                    MapY(call.cy, radius[p[2]], angle[p[1]])]
    /\ pc' = IF call.op = "unwarp" THEN "remap" ELSE "done"
    /\ UNCHANGED <<call, yfrac, radius, angle, dst, gui_vars, scen_vars>>

\* lines 29-30; cv2.remap raises cv2.error on an empty map
UnwarpRemap ==
    /\ pc = "remap"
    /\ call.op = "unwarp"
    /\ IF DOMAIN map_x = {}
       THEN pc' = "raised" /\ dst' = dst
       ELSE pc' = "done" /\ dst' = Remap(call.src, map_x, map_y, call.interp)
    /\ UNCHANGED <<call, yfrac, radius, angle, map_x, map_y, gui_vars, scen_vars>>

NextCore ==
    \/ UnwarpEnter
    \/ BuildMapYFrac
    \/ BuildMapRadius
    \/ BuildMapAngle
    \/ BuildMapReturn
    \/ UnwarpRemap
SpecCore == InitCore /\ [][NextCore]_vars

----------------------------------------------------------------------------
(* C4, C6, C7: the transform's boundary and its map                        *)

InBuildMap == pc \in {"build_map", "radius", "angle", "map"}
MapBuilt == call.op \in {"unwarp", "build_map"} /\ pc \in {"remap", "done", "raised"}

\* C4 as stated: unwarp derives destHeight = round(destWidth / (360/55)), and
\* build_map is never executed by unwarp with unw_w <= 0 or unw_h < 1 (such a
\* width is rejected before map construction).
C4_BadDimensionsNeverReachBuildMap ==
    call.op = "unwarp" =>
        /\ pc # "unwarp" =>
              call.unw_h = RoundHalfEven(call.unw_w * 55, 360)
        /\ (InBuildMap \/ MapBuilt) => (call.unw_w > 0 /\ call.unw_h >= 1)

\* C6: with rotationOffset = 0 the angle of column x is exactly -(x/destWidth)
\* of a turn, strictly decreasing in x; column 0 samples angle 0
\* (mapX = centerX + radius, mapY = centerY) and column destWidth/4 samples
\* angle -90 degrees (mapX = centerX, mapY = centerY - radius) in every row.
C6_ClockwiseSweep ==
    (MapBuilt /\ call.shift = 0) =>
        /\ \A x \in DOMAIN angle : angle[x] * call.unw_w = 0 - 360 * x
        /\ \A x1 \in DOMAIN angle, x2 \in DOMAIN angle :
              x1 < x2 => angle[x1] > angle[x2]
        /\ \A p \in DOMAIN map_x :
              /\ p[1] = 0 =>
                    /\ map_x[p] = call.cx + radius[p[2]]
                    /\ map_y[p] = call.cy
              /\ 4 * p[1] = call.unw_w =>
                    /\ map_x[p] = call.cx
                    /\ map_y[p] = call.cy - radius[p[2]]

\* a quarter-turn column whose sample lies strictly above the centre
C6_Witness ==
    /\ MapBuilt /\ pc = "done" /\ call.shift = 0 /\ call.unw_w = 8
    /\ radius[0] > 0
    /\ map_x[<<0, 0>>] = call.cx + radius[0]
    /\ map_y[<<2, 0>>] = call.cy - radius[0]

\* C7: every row y is sampled at radius = frac*(outerRadius - innerRadius) +
\* innerRadius with frac = A*t^2 + B*t + C, t = y/destHeight, (A,B,C) the
\* coefficients of the call (the module's Y_WARP constants under unwarp), and
\* frac is not clamped: frac < 0 gives a radius at or below innerRadius,
\* frac > 1 a radius at or above outerRadius.
C7_RadiusFromUnclampedCurve ==
    /\ call.op = "unwarp" =>
          (call.yA = 1850 /\ call.yB = 8184 /\ call.yC = 0 - 28)
    /\ (call.op \in {"unwarp", "build_map"}
          /\ pc \in {"angle", "map", "remap", "done", "raised"}) =>
          \A y \in DOMAIN radius :
             LET hh == call.unw_h
                 f  == RoundHalfEven(call.yA * y * y + call.yB * y * hh
                                     + call.yC * hh * hh, hh * hh)
             IN  /\ yfrac[y] = f
                 /\ radius[y] = RoundHalfEven(f * (call.rmax - call.rmin), 10000)
                                + call.rmin
                 /\ (f < 0 /\ call.rmin < call.rmax) => radius[y] <= call.rmin
                 /\ (f > 10000 /\ call.rmin < call.rmax) => radius[y] >= call.rmax

\* a map with one row below the inner radius and one beyond the outer radius
C7_Witness ==
    /\ MapBuilt /\ call.rmin < call.rmax
    /\ \E y \in DOMAIN radius : yfrac[y] < 0 /\ radius[y] < call.rmin
    /\ \E y \in DOMAIN radius : yfrac[y] > 10000 /\ radius[y] > call.rmax

----------------------------------------------------------------------------
(* The single-white-pixel scenario, destination pixel by destination pixel *)

Scenario ==
    [op |-> "scenario",
     src |-> [w |-> 400, h |-> 400, fg |-> {<<350, 200>>}],
     unw_w |-> 360, unw_h |-> UnwH(360), cx |-> 200 * Q, cy |-> 200 * Q,
     rmin |-> 50 * Q, rmax |-> 150 * Q, shift |-> 0,
     yA |-> 0, yB |-> K, yC |-> 0, interp |-> "nearest"]

\* build_map's coordinate pair for destination pixel p = <<x, y>>
MapAt(c, p) ==
    LET rad == Radius(YFrac(p[2], c.unw_h, c.yA, c.yB, c.yC), c.rmin, c.rmax)
        ang == Angle(p[1], c.unw_w, c.shift)
    IN  <<MapX(c.cx, rad, ang), MapY(c.cy, rad, ang)>>

InitScenario ==
    /\ GuiIdle /\ CoreIdle
    /\ call = Scenario
    /\ pc = "scan"
    /\ scan = <<0, 0>> /\ sample = Black /\ whites = {}

\* one destination pixel: its map entry (lines 18-23), its sample (line 30)
ScanPixel ==
    /\ pc = "scan"
    /\ LET m == MapAt(call, scan)
           v == RemapPixel(call.src, m[1], m[2], call.interp)
       IN  /\ map_x' = [p \in {scan} |-> m[1]]
           /\ map_y' = [p \in {scan} |-> m[2]]
           /\ sample' = v
           /\ whites' = IF v = White THEN whites \cup {scan} ELSE whites
    /\ IF scan[1] + 1 < call.unw_w
       THEN scan' = <<scan[1] + 1, scan[2]>> /\ pc' = pc
       ELSE IF scan[2] + 1 < call.unw_h
       THEN scan' = <<0, scan[2] + 1>> /\ pc' = pc
       ELSE scan' = scan /\ pc' = "done"
    /\ UNCHANGED <<call, yfrac, radius, angle, dst, gui_vars>>

NextScenario == ScanPixel
SpecScenario == InitScenario /\ [][NextScenario]_vars

\* destHeight of the scenario: round(360 / (360/55))
ScenarioHeightIs55 == Scenario.unw_h = 55

\* C2 as stated: the panorama holds a white pixel at (0, destHeight-1), within
\* one pixel, and black everywhere else.
C2_WhiteAtOuterEdge ==
    (pc = "done" /\ call.op = "scenario") =>
        /\ ScenarioHeightIs55
        /\ \E p \in whites : TRUE
        /\ \A p \in whites :
              /\ p[2] >= call.unw_h - 2
              /\ (p[1] <= 1 \/ p[1] = call.unw_w - 1)

\* C2 amended: destHeight is 55 and the panorama is black at every
\* destination pixel; (0, destHeight-1) samples source pixel (348,200), the
\* last row lying at radius 50 + 100*54/55 < 149.5, so no destination pixel
\* samples the white source pixel at radius 150.
C2_PanoramaAllBlack ==
    call.op = "scenario" =>
        /\ ScenarioHeightIs55
        /\ sample = Black /\ whites = {}
        /\ \A p \in DOMAIN map_x :
              p = <<0, call.unw_h - 1>> =>
                 (cvRound(map_x[p]) = 348 /\ cvRound(map_y[p]) = 200)

\* the outer-edge, angle-zero destination pixel has been sampled
C2_Witness ==
    /\ call.op = "scenario" /\ pc = "scan"
    /\ DOMAIN map_x = {<<0, 54>>}
    /\ cvRound(map_x[<<0, 54>>]) = 348
    /\ sample = Black

----------------------------------------------------------------------------
(* BloggieGUI (src lines 39-229).  Every handler is an operator from the   *)
(* window's state (a record of the fields) to the state it leaves.         *)

\* a user session performs at most MaxEvents events
MaxEvents == 4

Gui ==
    [img_path |-> img_path, img_bgr |-> img_bgr, w |-> w, h |-> h,
     cx |-> cx, cy |-> cy, rmin |-> rmin, rmax |-> rmax, pano_w |-> pano_w,
     shift_deg |-> shift_deg, interp |-> interp,
     pending |-> pending, dragging |-> dragging, timers |-> timers,
     left |-> left, right |-> right, out_file |-> out_file,
     params_file |-> params_file, last_map |-> last_map]

\* cv2.imread(path, IMREAD_COLOR): a raster, or None for a file that is no
\* image.  ink is what has been drawn over the pixels (nothing, on a file
\* just read).
Imread(path) ==
    CASE path = "small.png" ->
            Some([w |-> 4, h |-> 2, fg |-> {<<1, 0>>}, ink |-> {}])
      [] path = "bloggie.jpg" ->
            Some([w |-> 1920, h |-> 1080, fg |-> {<<1314, 997>>}, ink |-> {}])
      [] OTHER -> None

\* what the file dialogs return: "" when cancelled
OpenPaths == {"", "small.png", "bloggie.jpg", "notes.txt"}
SavePaths == {"", "out"}
Clicks == {<<150, 300>>, <<450, 310>>}
Keysyms == {"Left", "Right", "Up", "Down", "a"}
ScaleValues == {0, 90}

\* lines 26-30, as the GUI sees them: the panorama is the resampling of img
\* through the map of these arguments, under this mode
unwarp(img, unw_w, c_x, c_y, r_min, r_max, shift, mode) ==
    [img |-> img, unw_w |-> unw_w, unw_h |-> UnwH(unw_w), cx |-> c_x, cy |-> c_y,
     rmin |-> r_min, rmax |-> r_max, shift |-> shift, interp |-> mode]

\* lines 197-202 (math.radians: the model measures angles in degrees)
compute_pano(s) ==
    unwarp(s.img_bgr[1], s.pano_w, s.cx, s.cy, s.rmin, s.rmax, s.shift_deg, s.interp)

\* lines 204-213: the overlay is drawn on a copy; the result is
\* <<img_bgr afterwards, the image returned>>
draw_left_overlay_in_place(s) ==
    LET mark == [cx |-> RoundHalfEven(s.cx, Q), cy |-> RoundHalfEven(s.cy, Q),
                 rin |-> RoundHalfEven(s.rmin, Q), rout |-> RoundHalfEven(s.rmax, Q)]
        img  == [s.img_bgr[1] EXCEPT !.ink = @ \cup {mark}]
    IN  <<Some(img), img>>
draw_left_overlay(s) ==
    LET mark == [cx |-> RoundHalfEven(s.cx, Q), cy |-> RoundHalfEven(s.cy, Q),
                 rin |-> RoundHalfEven(s.rmin, Q), rout |-> RoundHalfEven(s.rmax, Q)]
        img  == [s.img_bgr[1] EXCEPT !.ink = @ \cup {mark}]
    IN  <<s.img_bgr, img>>

\* lines 221-229
refresh_impl_keeps_pending(s) ==
    IF s.img_bgr = None THEN s
    ELSE LET ov   == draw_left_overlay(s)
             s2   == [s EXCEPT !.img_bgr = ov[1], !.left = Some(ov[2])]
             pano == compute_pano(s2)
         IN  [s2 EXCEPT !.right = Some(pano), !.last_map = Some(pano)]
refresh_impl(s) ==
    LET s1 == [s EXCEPT !.pending = None]
    IN  IF s1.img_bgr = None THEN s1
        ELSE LET ov   == draw_left_overlay(s1)
                 s2   == [s1 EXCEPT !.img_bgr = ov[1], !.left = Some(ov[2])]
                 pano == compute_pano(s2)
             IN  [s2 EXCEPT !.right = Some(pano), !.last_map = Some(pano)]

\* self.after(30, ...): a new callback id
after(ts) == CHOOSE t \in 1 .. (Cardinality(ts) + 1) :
                 t \notin ts /\ \A u \in 1 .. (t - 1) : u \in ts

\* lines 215-219
refresh(s, force) ==
    IF ~force
    THEN IF s.pending # None THEN s
         ELSE LET t == after(s.timers)
              IN  [s EXCEPT !.pending = Some(t), !.timers = @ \cup {t}]
    ELSE refresh_impl(s)

\* a scheduled callback t runs
fire(s, t) == refresh_impl([s EXCEPT !.timers = @ \ {t}])

\* lines 134-150
load_image(s, path) ==
    IF path = "" THEN s
    ELSE LET img == Imread(path)
         IN  IF img = None THEN s
             ELSE LET ih == img[1].h
                      iw == img[1].w
                  IN  refresh([s EXCEPT !.img_path = Some(path), !.img_bgr = img,
                                        !.h = ih, !.w = iw,
                                        !.rmax = 36 * ih, !.rmin = 8 * ih,
                                        !.cx = IF iw > 1400 THEN 131450 ELSE 50 * iw,
                                        !.cy = IF ih > 1000 THEN 99725 ELSE 50 * ih,
                                        !.pano_w = 1200, !.shift_deg = 0,
                                        !.interp = "nearest"],
                              TRUE)

\* lines 152-158
save_output(s, out) ==
    IF s.img_bgr = None THEN s
    ELSE LET pano == compute_pano(s)
             s1   == [s EXCEPT !.last_map = Some(pano)]
         IN  IF out # "" THEN [s1 EXCEPT !.out_file = Some(pano)] ELSE s1

\* lines 160-170
save_params(s, out) ==
    IF s.img_bgr = None THEN s
    ELSE LET data == [image_path |-> s.img_path[1], w |-> s.w, h |-> s.h,
                      cx |-> s.cx, cy |-> s.cy, minR |-> s.rmin, maxR |-> s.rmax,
                      width |-> s.pano_w, shift_deg |-> s.shift_deg,
                      interp |-> s.interp,
                      yWarp |-> <<Y_WARP_A, Y_WARP_B, Y_WARP_C>>,
                      aspect |-> <<ASPECT_NUM, ASPECT_DEN>>]
         IN  IF out # "" THEN [s EXCEPT !.params_file = Some(data)] ELSE s

\* lines 177-185: display (600 x 600) to source coordinates, clamped,
\* rounded to 2 places
update_center_from_click(s, e) ==
    IF s.img_bgr = None THEN s
    ELSE LET m  == Max(s.w, s.h)
             x  == RoundHalfEven((e[1] * m - 300 * (m - s.w)) * Q, 600)
             y  == RoundHalfEven((e[2] * m - 300 * (m - s.h)) * Q, 600)
             xc == Max(0, Min((s.w - 1) * Q, x))
             yc == Max(0, Min((s.h - 1) * Q, y))
         IN  refresh([s EXCEPT !.cx = xc, !.cy = yc], FALSE)

\* lines 173-175
start_drag(s, e) == update_center_from_click([s EXCEPT !.dragging = TRUE], e)
drag(s, e) == IF s.dragging THEN update_center_from_click(s, e) ELSE s
stop_drag(s) == [s EXCEPT !.dragging = FALSE]

\* lines 187-194
on_key_unguarded(s, keysym) ==
    LET step == 25
        s1   == IF keysym = "Left"  THEN [s  EXCEPT !.cx = @ - step] ELSE s
        s2   == IF keysym = "Right" THEN [s1 EXCEPT !.cx = @ + step] ELSE s1
        s3   == IF keysym = "Up"    THEN [s2 EXCEPT !.cy = @ - step] ELSE s2
        s4   == IF keysym = "Down"  THEN [s3 EXCEPT !.cy = @ + step] ELSE s3
    IN  refresh(s4, FALSE)
on_key(s, keysym) ==
    IF s.img_bgr = None THEN s
    ELSE LET step == 25
             s1   == IF keysym = "Left"  THEN [s  EXCEPT !.cx = @ - step] ELSE s
             s2   == IF keysym = "Right" THEN [s1 EXCEPT !.cx = @ + step] ELSE s1
             s3   == IF keysym = "Up"    THEN [s2 EXCEPT !.cy = @ - step] ELSE s2
             s4   == IF keysym = "Down"  THEN [s3 EXCEPT !.cy = @ + step] ELSE s3
         IN  refresh(s4, FALSE)

\* lines 99-100, 114-118: a Spinbox arrow moves its variable by the
\* increment within [from, to], then runs command = self.refresh
Spinboxes ==
    [cx     |-> [from |-> 0, to |-> 99999 * Q, inc |-> 25],
     cy     |-> [from |-> 0, to |-> 99999 * Q, inc |-> 25],
     rmin   |-> [from |-> 0, to |-> 99999 * Q, inc |-> 50],
     rmax   |-> [from |-> 0, to |-> 99999 * Q, inc |-> 50],
     pano_w |-> [from |-> 400, to |-> 6000, inc |-> 20]]

spin(s, var, dir) ==
    LET b == Spinboxes[var]
        v == Max(b.from, Min(b.to, s[var] + dir * b.inc))
    IN  refresh([s EXCEPT ![var] = v], FALSE)

\* lines 125-126: the Rotate scale sets shift_deg, then refreshes
scale(s, v) == refresh([s EXCEPT !.shift_deg = v], FALSE)

\* lines 129-131: the Interp combobox sets interp, then refreshes
combobox(s, m) == refresh([s EXCEPT !.interp = m], FALSE)

----------------------------------------------------------------------------
(* The window as a state machine                                           *)

Becomes(s) ==
    /\ img_path' = s.img_path /\ img_bgr' = s.img_bgr /\ w' = s.w /\ h' = s.h
    /\ cx' = s.cx /\ cy' = s.cy /\ rmin' = s.rmin /\ rmax' = s.rmax
    /\ pano_w' = s.pano_w /\ shift_deg' = s.shift_deg /\ interp' = s.interp
    /\ pending' = s.pending /\ dragging' = s.dragging /\ timers' = s.timers
    /\ left' = s.left /\ right' = s.right /\ out_file' = s.out_file
    /\ params_file' = s.params_file /\ last_map' = s.last_map
    /\ UNCHANGED <<core_vars, scen_vars>>

\* a user event handled by a handler that leaves state s
Event(s) == nev < MaxEvents /\ nev' = nev + 1 /\ Becomes(s)

Init ==
    /\ GuiIdle /\ CoreIdle /\ ScenIdle
    /\ pc = "mainloop" /\ call = [op |-> "gui"]

LoadImage == \E path \in OpenPaths : Event(load_image(Gui, path))
SaveOutput == \E out \in SavePaths : Event(save_output(Gui, out))
SaveParams == \E out \in SavePaths : Event(save_params(Gui, out))
StartDrag == \E e \in Clicks : Event(start_drag(Gui, e))
Drag == \E e \in Clicks : Event(drag(Gui, e))
StopDrag == Event(stop_drag(Gui))
OnKey == \E k \in Keysyms : Event(on_key(Gui, k))
Spin == \E var \in DOMAIN Spinboxes, dir \in {0 - 1, 1} : Event(spin(Gui, var, dir))
Scale == \E v \in ScaleValues : Event(scale(Gui, v))
Combobox == \E m \in Modes : Event(combobox(Gui, m))
\* Tk runs a scheduled callback (not a user event)
TimerFire == \E t \in timers : nev' = nev /\ Becomes(fire(Gui, t))

Next ==
    \/ LoadImage
    \/ SaveOutput
    \/ SaveParams
    \/ StartDrag
    \/ Drag
    \/ StopDrag
    \/ OnKey
    \/ Spin
    \/ Scale
    \/ Combobox
    \/ TimerFire

Spec == Init /\ [][Next]_vars

----------------------------------------------------------------------------
(* C3, C5, C8, C9, C10: the window                                         *)

\* every panorama the window holds: the last one computed, the one shown,
\* the one written to a file
Panos == {last_map[i] : i \in DOMAIN last_map} \cup {right[i] : i \in DOMAIN right}
            \cup {out_file[i] : i \in DOMAIN out_file}

\* the fields of the window, and those other than the named ones
Fields == <<img_path, img_bgr, w, h, cx, cy, rmin, rmax, pano_w, shift_deg,
            interp, pending, dragging, timers, left, right, out_file,
            params_file, last_map>>
ImageAndParams == <<img_path, img_bgr, w, h, cx, cy, rmin, rmax, pano_w,
                    shift_deg, interp>>
Outputs == <<left, right, out_file, params_file, last_map>>

\* C3 as stated: build_map is never executed with rmin < 0 or rmin >= rmax
\* (such radii are rejected before map construction).
C3_BadRadiiNeverReachBuildMap ==
    \A pano \in Panos : pano.rmin >= 0 /\ pano.rmin < pano.rmax

\* no panorama is computed from an absent or zero-area raster
ResampledFromLoadedImage ==
    /\ \A pano \in Panos : pano.img.w > 0 /\ pano.img.h > 0
    /\ img_bgr = None => (Panos = {} /\ left = None /\ params_file = None)
    /\ img_bgr # None => (img_bgr[1].w > 0 /\ img_bgr[1].h > 0)

\* C5 as stated: resampling never runs on an absent or zero-area raster, and
\* with no image loaded the save, save-params, drag, key and refresh handlers
\* change no state.
C5_NoImageHandlersChangeNothing ==
    /\ []ResampledFromLoadedImage
    /\ [][(img_bgr = None
            /\ (SaveOutput \/ SaveParams \/ StartDrag \/ Drag \/ StopDrag \/ OnKey
                  \/ Spin \/ Scale \/ Combobox \/ TimerFire))
          => UNCHANGED <<img_path, img_bgr, w, h, pending, dragging, timers,
                         left, right, out_file, params_file, last_map>>]_vars

\* C5 amended: resampling never runs on an absent or zero-area raster; with no
\* image loaded the save, save-params and key handlers change no state, the
\* drag handlers change nothing but _dragging, refresh (run by a spinbox, the
\* scale or the combobox after the widget set its variable) changes nothing
\* but _pending and the scheduled callbacks, _refresh_impl changes nothing but
\* _pending and the callback that ran; none of them loads an image, moves the
\* centre or computes a panorama.
C5_NoImageHandlersComputeNothing ==
    /\ []ResampledFromLoadedImage
    /\ [][img_bgr = None =>
            /\ (SaveOutput \/ SaveParams \/ OnKey) => UNCHANGED Fields
            /\ (StartDrag \/ Drag \/ StopDrag) =>
                  UNCHANGED <<ImageAndParams, Outputs, pending, timers>>
            /\ (Spin \/ Scale \/ Combobox) =>
                  UNCHANGED <<img_path, img_bgr, w, h, Outputs, dragging>>
            /\ TimerFire =>
                  (UNCHANGED <<ImageAndParams, Outputs, dragging>> /\ pending' = None)
         ]_vars

\* the mouse button went down on the empty window, and a spinbox was stepped
C5_Witness ==
    /\ img_bgr = None /\ dragging /\ pending # None /\ nev >= 2
    /\ cx = 0 /\ cy = 0 /\ Panos = {}

\* C8: only load_image changes img_bgr, w and h; the raster held is the one
\* read from the file, without the overlay; every panorama is resampled from
\* those pixels.
C8_SourceNeverMutated ==
    /\ [](img_bgr # None => (img_bgr = Imread(img_path[1])
                                /\ w = img_bgr[1].w /\ h = img_bgr[1].h))
    /\ [](\A pano \in Panos : pano.img.ink = {})
    /\ [][<<img_bgr, w, h>>' # <<img_bgr, w, h>> => LoadImage]_vars

\* the overlay is on the left label, a panorama is shown and one was saved
C8_Witness ==
    /\ img_bgr # None /\ img_bgr[1].ink = {}
    /\ left # None /\ left[1].ink # {}
    /\ right # None /\ out_file # None

\* the panorama shown is the one of the loaded image and the current values
PanoCurrent == img_bgr # None /\ right = Some(compute_pano(Gui))

\* C9: with an image loaded, once the scheduled callbacks have run (each run
\* removes one and schedules none) the shown panorama is unwarp of the loaded
\* image with the current values: every callback shows the panorama of the
\* values it reads when it fires, and no change of a value is left without a
\* callback to come.
C9_RefreshNotLost ==
    /\ []((img_bgr # None /\ timers = {}) => PanoCurrent)
    /\ [][TimerFire =>
            /\ timers' \subseteq timers /\ timers' # timers
            /\ img_bgr # None => PanoCurrent'
         ]_vars

\* two parameter changes were coalesced into one callback, which has run
C9_Witness ==
    /\ PanoCurrent /\ timers = {} /\ nev >= 3
    /\ img_bgr = Imread("small.png")
    /\ right[1].cx # 200 /\ right[1].rmin # 16

\* C10 as stated: at most one _refresh_impl callback is scheduled and not yet
\* run, and _pending is non-None exactly when one is.
C10_OneCallbackOutstanding ==
    /\ Cardinality(timers) <= 1
    /\ (pending # None) <=> (timers # {})

====
